---- MODULE Spec2Model ----
(***************************************************************************)
(* NVIDIA Audio2Face-3D gRPC bridge (bridge-service/main.py).              *)
(*                                                                         *)
(* The service is one uvicorn process running one asyncio event loop.      *)
(* POST /a2f/process and GET /health are `async def` handlers, so they run *)
(* on the event loop thread; process_audio contains no await, and its      *)
(* upstream call is the synchronous stub.ProcessAudio(...).                *)
(*                                                                         *)
(* Python values:                                                          *)
(*   str | None   [none : BOOLEAN, s : sequence of one-character strings]  *)
(*   exception    [type, status_code, detail]   (type "None": no exception)*)
(*   int / int    [num, den]   (true division; exact rational)             *)
(*   number       [t : "int" | "float", v : integer]                       *)
(***************************************************************************)
EXTENDS Integers, Sequences, FiniteSets, TLC

VARIABLES
    BRIDGE_TOKEN,     \* os.getenv("A2F_BRIDGE_TOKEN")
    NVIDIA_API_KEY,   \* os.getenv("NVIDIA_API_KEY")
    A2F_OUTPUT_FPS,   \* int(os.getenv("A2F_OUTPUT_FPS", "60"))
    rq,               \* per connection: the request, its handler's locals, its response
    event_loop,       \* the connection whose handler occupies the event loop thread, 0 if none
    raw,              \* translator harness: the upstream response handed to parse_a2f_response
    parsed            \* translator harness: what parse_a2f_response returned or raised

vars == <<BRIDGE_TOKEN, NVIDIA_API_KEY, A2F_OUTPUT_FPS, rq, event_loop, raw, parsed>>

----------------------------------------------------------------------------
(* Bounds *)

MaxRequests == 2      \* connections open at the same time
MaxFrames == 2        \* records in one upstream response
MaxWidth == 2         \* values in one flat-sequence record

Requests == 1..MaxRequests

----------------------------------------------------------------------------
(* Python strings *)

None == [none |-> TRUE, s |-> <<>>]
Str(chars) == [none |-> FALSE, s |-> chars]

\* bool(x) of a str | None
Truthy(x) == ~x.none /\ x.s # <<>>

Bearer == <<"B", "e", "a", "r", "e", "r", " ">>

\* str.startswith
StartsWith(s, prefix) ==
    Len(s) >= Len(prefix) /\ SubSeq(s, 1, Len(prefix)) = prefix

\* str.replace(old, new): every non-overlapping occurrence, left to right
RECURSIVE Replace(_, _, _)
Replace(s, old, new) ==
    IF s = <<>> THEN <<>>
    ELSE IF StartsWith(s, old)
         THEN new \o Replace(SubSeq(s, Len(old) + 1, Len(s)), old, new)
         ELSE <<Head(s)>> \o Replace(Tail(s), old, new)

----------------------------------------------------------------------------
(* Exceptions *)

NoExc == [type |-> "None", status_code |-> 0, detail |-> <<>>]
HTTPException(status_code, detail) ==
    [type |-> "HTTPException", status_code |-> status_code, detail |-> detail]
Raised(e) == e.type # "None"

\* str(e): starlette renders an HTTPException as "<status_code>: <detail>",
\* any other exception as its message
StrOfExc(e) ==
    IF e.type = "HTTPException"
    THEN <<ToString(e.status_code), ": ">> \o e.detail
    ELSE e.detail

----------------------------------------------------------------------------
(* Configuration *)

\* identifiers and keys that the code never scans are kept as one chunk
A2F_FUNCTION_ID == Str(<<"0961a6da-fb9e-4f2e-8491-247e5fd7bf8d">>)
A2F_ENDPOINT == "grpc.nvcf.nvidia.com:443"

TokenValues ==
    { None, Str(<<>>), Str(<<"t">>), Str(Bearer \o <<"t">>) }
KeyValues == { None, Str(<<"k">>) }
FpsValues == { 0, 1, 3 }

----------------------------------------------------------------------------
(* verify_token *)

verify_token(authorization) ==
    IF ~Truthy(BRIDGE_TOKEN) THEN NoExc
    ELSE IF ~Truthy(authorization)
    THEN HTTPException(401, <<"Missing authorization header">>)
    ELSE IF ~StartsWith(authorization.s, Bearer)
    THEN HTTPException(401, <<"Invalid authorization format">>)
    ELSE IF Replace(authorization.s, Bearer, <<>>) # BRIDGE_TOKEN.s
    THEN HTTPException(403, <<"Invalid token">>)
    ELSE NoExc

----------------------------------------------------------------------------
(* Numbers *)

PyInt(n) == [t |-> "int", v |-> n]
PyFloat(n) == [t |-> "float", v |-> n]

\* float(value)
float(value) == [t |-> "float", v |-> value.v]

\* a / b for b # 0 (true division)
TrueDiv(a, b) == [num |-> a, den |-> b]
Zero == [num |-> 0, den |-> 1]
RatEq(x, y) == x.num * y.den = y.num * x.den

ZeroDivisionError ==
    [type |-> "ZeroDivisionError", status_code |-> 0, detail |-> <<"division by zero">>]
TypeError ==
    [type |-> "TypeError", status_code |-> 0,
     detail |-> <<"'builtin_function_or_method' object is not iterable">>]

----------------------------------------------------------------------------
(* Upstream responses *)

\* a flat-sequence record: frame_data.values is the sequence of its values
SeqRecord(values) ==
    [shape |-> "seq", values |-> values, items |-> <<>>]
\* a mapping record (a dict): frame_data.values is the dict's bound method
MapRecord(items) ==
    [shape |-> "map", values |-> <<>>, items |-> items]

Values == { PyInt(1), PyFloat(0) }
Names == { "jawOpen", "eyeBlinkLeft" }

RECURSIVE SeqsUpTo(_, _)
SeqsUpTo(S, n) ==
    IF n = 0 THEN { <<>> }
    ELSE LET shorter == SeqsUpTo(S, n - 1)
         IN  shorter \cup { Append(q, x) : q \in { z \in shorter : Len(z) = n - 1 }, x \in S }

SeqRecords == { SeqRecord(v) : v \in SeqsUpTo(Values, MaxWidth) }
MapRecords == UNION { { MapRecord(f) : f \in [D -> Values] } : D \in SUBSET Names }

Response(blendshapes) == [blendshapes |-> blendshapes]

----------------------------------------------------------------------------
(* parse_a2f_response *)

blendshape_name(j) == "blendshape_" \o ToString(j)

\* what the body of the outer loop raises for the i-th record (i from 0)
frame_exc(i, frame_data) ==
    IF A2F_OUTPUT_FPS = 0 THEN ZeroDivisionError        \* i / A2F_OUTPUT_FPS
    ELSE IF frame_data.shape = "map" THEN TypeError     \* enumerate(frame_data.values)
    ELSE NoExc

\* blendshape_frame with the frames counted from 1
blendshape_frame_from_one(i, frame_data) ==
    LET W == Len(frame_data.values)
        names == { blendshape_name(j) : j \in 0..(W - 1) }
        index(name) == CHOOSE j \in 0..(W - 1) : blendshape_name(j) = name
    IN  [timestamp |-> TrueDiv(i + 1, A2F_OUTPUT_FPS),
         blendshapes |-> [name \in names |-> float(frame_data.values[index(name) + 1])]]

\* the BlendshapeFrame the outer loop appends for the i-th record (i from 0)
blendshape_frame(i, frame_data) ==
    LET W == Len(frame_data.values)
        names == { blendshape_name(j) : j \in 0..(W - 1) }
        index(name) == CHOOSE j \in 0..(W - 1) : blendshape_name(j) = name
    IN  [timestamp |-> TrueDiv(i, A2F_OUTPUT_FPS),
         blendshapes |-> [name \in names |-> float(frame_data.values[index(name) + 1])]]

parse_a2f_response(response) ==
    LET bs == response.blendshapes
        bad == { i \in 1..Len(bs) : Raised(frame_exc(i - 1, bs[i])) }
        first == CHOOSE i \in bad : \A k \in bad : i <= k
    IN  IF bad = {}
        THEN [exc |-> NoExc,
              frames |-> [i \in 1..Len(bs) |-> blendshape_frame(i - 1, bs[i])]]
        ELSE [exc |-> frame_exc(first - 1, bs[first]), frames |-> <<>>]

----------------------------------------------------------------------------
(* process_audio *)

\* base64.b64decode(request.audio)
b64decode(audio) ==
    CASE audio = "QUJD" -> [exc |-> NoExc, bytes |-> <<65, 66, 67>>]
      [] audio = ""     -> [exc |-> NoExc, bytes |-> <<>>]
      [] OTHER          -> [exc |-> [type |-> "binascii.Error", status_code |-> 0,
                                     detail |-> <<"Incorrect padding">>],
                            bytes |-> <<>>]

convert_to_pcm16(audio_data, input_format) == audio_data

create_grpc_metadata ==
    << [key |-> "authorization", value |-> Str(Bearer \o NVIDIA_API_KEY.s)],
       [key |-> "function-id", value |-> A2F_FUNCTION_ID] >>

\* process_audio_call without the check of NVIDIA_API_KEY
process_audio_call_unchecked_key(request, authorization) ==
    LET auth == verify_token(authorization)
        decoded == b64decode(request.audio)
        stop(e) == [auth |-> auth, exc |-> e, function_id |-> None,
                    channels |-> 0, calls |-> <<>>]
    IN  IF Raised(auth) THEN stop(auth)
        ELSE IF Raised(decoded.exc) THEN stop(decoded.exc)
        ELSE [auth |-> auth, exc |-> NoExc,
              function_id |-> IF Truthy(request.function_id)
                              THEN request.function_id ELSE A2F_FUNCTION_ID,
              channels |-> 1,
              calls |-> << [target |-> A2F_ENDPOINT,
                            audio_data |-> convert_to_pcm16(decoded.bytes, request.format),
                            output_fps |-> A2F_OUTPUT_FPS,
                            metadata |-> create_grpc_metadata,
                            timeout |-> None] >>]

\* the try block up to the upstream call: what it raises, the channels it
\* creates and the ProcessAudio calls it places
process_audio_call(request, authorization) ==
    LET auth == verify_token(authorization)
        decoded == b64decode(request.audio)
        stop(e) == [auth |-> auth, exc |-> e, function_id |-> None,
                    channels |-> 0, calls |-> <<>>]
    IN  IF Raised(auth) THEN stop(auth)
        ELSE IF ~Truthy(NVIDIA_API_KEY)
        THEN stop(HTTPException(500, <<"NVIDIA_API_KEY not configured">>))
        ELSE IF Raised(decoded.exc) THEN stop(decoded.exc)
        ELSE [auth |-> auth, exc |-> NoExc,
              function_id |-> IF Truthy(request.function_id)
                              THEN request.function_id ELSE A2F_FUNCTION_ID,
              channels |-> 1,
              calls |-> << [target |-> A2F_ENDPOINT,
                            audio_data |-> convert_to_pcm16(decoded.bytes, request.format),
                            output_fps |-> A2F_OUTPUT_FPS,
                            metadata |-> create_grpc_metadata,
                            timeout |-> None] >>]

\* except_clauses reporting the exception's type in place of e.details()
except_clauses_without_details(e) ==
    IF e.type = "RpcError"
    THEN HTTPException(500, <<"NVIDIA A2F-3D Error: ", e.type>>)
    ELSE HTTPException(500, StrOfExc(e))

\* the two except clauses: the HTTPException that leaves the handler
except_clauses(e) ==
    IF e.type = "RpcError"
    THEN HTTPException(500, <<"NVIDIA A2F-3D Error: ">> \o e.detail)
    ELSE HTTPException(500, StrOfExc(e))

\* FastAPI's rendering of an HTTPException that leaves the handler
ErrorResponse(e) ==
    [kind |-> "error", status_code |-> e.status_code, detail |-> e.detail]

\* duration_of with the default frame rate written in
duration_of_default_fps(frames) ==
    IF frames # <<>> THEN TrueDiv(Len(frames), 60) ELSE Zero

\* len(frames) / A2F_OUTPUT_FPS if frames else 0
duration_of(frames) ==
    IF frames # <<>> THEN TrueDiv(Len(frames), A2F_OUTPUT_FPS) ELSE Zero

\* the try block after the upstream call returned `response`
process_audio_return(response) ==
    LET p == parse_a2f_response(response)
    IN  IF Raised(p.exc) THEN ErrorResponse(except_clauses(p.exc))
        ELSE [kind |-> "AudioResponse", status_code |-> 200, success |-> TRUE,
              frames |-> p.frames, fps |-> A2F_OUTPUT_FPS,
              duration |-> duration_of(p.frames), error |-> None]

health_check_body ==
    [kind |-> "health", status_code |-> 200, status |-> "healthy",
     nvidia_api_configured |-> Truthy(NVIDIA_API_KEY),
     function_id |-> A2F_FUNCTION_ID, output_fps |-> A2F_OUTPUT_FPS]

----------------------------------------------------------------------------
(* Requests *)

Headers ==
    { None, Str(<<>>), Str(<<"t">>), Str(Bearer),
      Str(<<"B", "a", "s", "i", "c", " ", "t">>),
      Str(Bearer \o <<"t">>), Str(Bearer \o <<"u">>),
      Str(Bearer \o Bearer \o <<"t">>) }

AudioRequests ==
    [audio : { "QUJD", "QQ" }, format : { "webm" },
     function_id : { None, Str(<<"custom-function">>) }]

RpcErrors ==
    { [type |-> "RpcError", status_code |-> 0, detail |-> <<d>>] :
        d \in { "failed to connect to all addresses", "function not found" } }

\* what the upstream may answer to a call of the service
UpstreamResponses ==
    { Response(b) :
        b \in SeqsUpTo({ SeqRecord(<<PyFloat(0), PyFloat(1)>>),
                         MapRecord([n \in { "jawOpen" } |-> PyFloat(1)]) }, MaxFrames) }

\* what the translator harness feeds parse_a2f_response
RawResponses ==
    { Response(b) : b \in SeqsUpTo(SeqRecords \cup MapRecords, MaxFrames) }

NoRequest == [audio |-> "", format |-> "", function_id |-> None]
NoResponse == [kind |-> "none", status_code |-> 0]
Idle ==
    [state |-> "idle", kind |-> "", authorization |-> None, request |-> NoRequest,
     auth |-> NoExc, function_id |-> None, channels |-> 0, calls |-> <<>>,
     upstream |-> "", a2f_response |-> Response(<<>>), e |-> NoExc,
     response |-> NoResponse]

NotCalled == [called |-> FALSE, exc |-> NoExc, frames |-> <<>>]

----------------------------------------------------------------------------
(* The service *)

Init ==
    /\ BRIDGE_TOKEN \in TokenValues
    /\ NVIDIA_API_KEY \in KeyValues
    /\ A2F_OUTPUT_FPS \in FpsValues
    /\ rq = [r \in Requests |-> Idle]
    /\ event_loop = 0
    /\ raw = Response(<<>>)
    /\ parsed = NotCalled

config == <<BRIDGE_TOKEN, NVIDIA_API_KEY, A2F_OUTPUT_FPS>>

\* a client connects and sends a request; the server has not read it yet
Arrive(r) ==
    /\ rq[r].state = "idle"
    /\ \E kind \in { "POST /a2f/process", "GET /health" } :
          rq' = [rq EXCEPT ![r] = [Idle EXCEPT !.state = "arrived", !.kind = kind]]
    /\ UNCHANGED <<config, event_loop, raw, parsed>>

\* GET /health
health_check(r) ==
    /\ rq[r].state = "arrived"
    /\ rq[r].kind = "GET /health"
    /\ event_loop = 0
    /\ event_loop' = r
    /\ rq' = [rq EXCEPT ![r].state = "done", ![r].response = health_check_body]
    /\ UNCHANGED <<config, raw, parsed>>

\* POST /a2f/process, from its start to the upstream call or to the exception
\* that ends it before the call
process_audio(r) ==
    /\ rq[r].state = "arrived"
    /\ rq[r].kind = "POST /a2f/process"
    /\ event_loop = 0
    /\ event_loop' = r
    /\ \E authorization \in Headers, request \in AudioRequests :
          LET c == process_audio_call(request, authorization)
          IN  rq' = [rq EXCEPT ![r] =
                  [state |-> IF Raised(c.exc) THEN "done" ELSE "waiting",
                   kind |-> rq[r].kind,
                   authorization |-> authorization,
                   request |-> request,
                   auth |-> c.auth,
                   function_id |-> c.function_id,
                   channels |-> c.channels,
                   calls |-> c.calls,
                   upstream |-> "", a2f_response |-> Response(<<>>), e |-> NoExc,
                   response |-> IF Raised(c.exc)
                                THEN ErrorResponse(except_clauses(c.exc))
                                ELSE NoResponse]]
    /\ UNCHANGED <<config, raw, parsed>>

\* stub.ProcessAudio returns a response; the handler runs to its return
ProcessAudioReturns(r) ==
    /\ rq[r].state = "waiting"
    /\ \E response \in UpstreamResponses :
          rq' = [rq EXCEPT ![r].state = "done",
                           ![r].upstream = "returned",
                           ![r].a2f_response = response,
                           ![r].response = process_audio_return(response)]
    /\ UNCHANGED <<config, event_loop, raw, parsed>>

\* stub.ProcessAudio raises grpc.RpcError; the handler runs to its raise
ProcessAudioRaises(r) ==
    /\ rq[r].state = "waiting"
    /\ \E e \in RpcErrors :
          rq' = [rq EXCEPT ![r].state = "done",
                           ![r].upstream = "raised",
                           ![r].e = e,
                           ![r].response = ErrorResponse(except_clauses(e))]
    /\ UNCHANGED <<config, event_loop, raw, parsed>>

\* the server writes the response, closes the exchange and the event loop
\* takes the next ready task
SendResponse(r) ==
    /\ rq[r].state = "done"
    /\ event_loop = r
    /\ event_loop' = 0
    /\ rq' = [rq EXCEPT ![r] = Idle]
    /\ UNCHANGED <<config, raw, parsed>>

Next ==
    \E r \in Requests :
        \/ Arrive(r)
        \/ health_check(r)
        \/ process_audio(r)
        \/ ProcessAudioReturns(r)
        \/ ProcessAudioRaises(r)
        \/ SendResponse(r)

Spec == Init /\ [][Next]_vars

\* The event loop runs every ready handler and writes every finished response.
\* Nothing obliges a client to connect or the upstream to answer.
FairSpec ==
    /\ Spec
    /\ \A r \in Requests :
          /\ WF_vars(health_check(r))
          /\ WF_vars(process_audio(r))
          /\ WF_vars(SendResponse(r))

----------------------------------------------------------------------------
(* The translator on its own *)

InitTranslator ==
    /\ BRIDGE_TOKEN = None
    /\ NVIDIA_API_KEY = None
    /\ A2F_OUTPUT_FPS \in FpsValues
    /\ rq = [r \in Requests |-> Idle]
    /\ event_loop = 0
    /\ raw \in RawResponses
    /\ parsed = NotCalled

Translate ==
    /\ ~parsed.called
    /\ parsed' = [called |-> TRUE] @@ parse_a2f_response(raw)
    /\ UNCHANGED <<config, rq, event_loop, raw>>

NextTranslator == Translate

SpecTranslator == InitTranslator /\ [][NextTranslator]_vars

----------------------------------------------------------------------------
(* Properties of the service *)

Process(r) == rq[r].kind = "POST /a2f/process"
Done(r) == rq[r].state = "done"
Waiting(r) == rq[r].state = "waiting"
Configured == Truthy(BRIDGE_TOKEN)

\* the text of a header after its leading "Bearer "
TokenPart(h) == SubSeq(h.s, Len(Bearer) + 1, Len(h.s))

\* C1: with a bridge token configured, POST /a2f/process answers 401 to a
\* missing header, 401 to a header that does not start with "Bearer ", 403 to a
\* header with the wrong token, and does not reject a header with the exact token.
C1_AuthStatusCodes ==
    \A r \in Requests :
        (Done(r) /\ Process(r) /\ Configured) =>
            LET h == rq[r].authorization
                status == rq[r].response.status_code
            IN  /\ h.none => status = 401
                /\ (~h.none /\ ~StartsWith(h.s, Bearer)) => status = 401
                /\ (StartsWith(h.s, Bearer) /\ TokenPart(h) # BRIDGE_TOKEN.s) => status = 403
                /\ (StartsWith(h.s, Bearer) /\ TokenPart(h) = BRIDGE_TOKEN.s) =>
                       status \notin { 401, 403 }

\* C2: a request has contacted the upstream (created a channel or called
\* ProcessAudio) only if its token check passed and the upstream API key is
\* configured; a request rejected by either check ends with no upstream contact.
C2_NoUpstreamContactBeforeChecks ==
    \A r \in Requests :
        /\ (rq[r].channels > 0 \/ rq[r].calls # <<>>) =>
               (~Raised(rq[r].auth) /\ Truthy(NVIDIA_API_KEY))
        /\ (Done(r) /\ Process(r) /\ (Raised(rq[r].auth) \/ ~Truthy(NVIDIA_API_KEY))) =>
               (rq[r].channels = 0 /\ rq[r].calls = <<>> /\ rq[r].response.kind = "error")

C2_Witness ==
    \E r \in Requests :
        /\ Done(r) /\ Process(r) /\ Raised(rq[r].auth)
        /\ rq[r].authorization = Str(Bearer \o <<"u">>)
        /\ rq[r].calls = <<>>

\* C3: a request whose ProcessAudio call raised an RPC error ends with status
\* 500, a message that contains the upstream detail, no frame data and no
\* success flag, after exactly one upstream call.
C3_RpcErrorSurfaces ==
    \A r \in Requests :
        (Done(r) /\ rq[r].upstream = "raised") =>
            LET resp == rq[r].response
            IN  /\ resp.kind = "error"
                /\ resp.status_code = 500
                /\ \E i \in 1..Len(resp.detail) :
                       SubSeq(resp.detail, i, i + Len(rq[r].e.detail) - 1) = rq[r].e.detail
                /\ Len(rq[r].calls) = 1
                /\ rq[r].channels = 1

C3_Witness ==
    \E r \in Requests :
        /\ Done(r) /\ rq[r].upstream = "raised"
        /\ rq[r].e.detail = <<"function not found">>

\* C4: the function identifier sent upstream is the request's function_id when
\* the request supplies one, and the process default otherwise.
C4_FunctionIdSent ==
    \A r \in Requests :
        \A i \in 1..Len(rq[r].calls) :
            \A j \in 1..Len(rq[r].calls[i].metadata) :
                LET m == rq[r].calls[i].metadata[j]
                IN  m.key = "function-id" =>
                        m.value = IF Truthy(rq[r].request.function_id)
                                  THEN rq[r].request.function_id
                                  ELSE A2F_FUNCTION_ID

\* C5: every request that is waiting in its upstream call eventually has its
\* response, whether or not the upstream ever answers.
C5_EveryRequestReturns ==
    \A r \in Requests : Waiting(r) ~> Done(r)

\* C6: while one request waits in its upstream call, any other request that
\* has arrived can start.
C6_OtherRequestsProceed ==
    \A r, q \in Requests :
        (r # q /\ Waiting(r) /\ rq[q].state = "arrived") =>
            ENABLED (health_check(q) \/ process_audio(q))

\* C7: verify_token accepts exactly when no bridge token is configured, or the
\* header is present, starts with "Bearer " and the text after that leading
\* "Bearer " equals the configured token.
C7_TokenCheckAcceptsExactly ==
    \A r \in Requests :
        (Process(r) /\ (Waiting(r) \/ Done(r))) =>
            LET h == rq[r].authorization
            IN  ~Raised(rq[r].auth) <=>
                    \/ ~Configured
                    \/ (~h.none /\ StartsWith(h.s, Bearer) /\ TokenPart(h) = BRIDGE_TOKEN.s)

\* C8: in a success response fps is the configured rate; duration * fps is the
\* number of frames when there are frames; duration is 0 and frames is empty
\* when the upstream returned no blendshape data.
C8_DurationInvariant ==
    \A r \in Requests :
        (Done(r) /\ rq[r].response.kind = "AudioResponse") =>
            LET resp == rq[r].response
            IN  /\ resp.success
                /\ resp.fps = A2F_OUTPUT_FPS
                /\ resp.frames # <<>> =>
                       /\ resp.duration.den # 0
                       /\ resp.duration.num * resp.fps = Len(resp.frames) * resp.duration.den
                /\ rq[r].a2f_response.blendshapes = <<>> =>
                       (resp.frames = <<>> /\ resp.duration.num = 0 /\ resp.duration.den # 0)

C8_Witness ==
    \E r \in Requests :
        /\ Done(r) /\ rq[r].response.kind = "AudioResponse"
        /\ Len(rq[r].response.frames) = 2
        /\ A2F_OUTPUT_FPS = 3

----------------------------------------------------------------------------
(* Properties of the translator *)

FlatInput == \A i \in 1..Len(raw.blendshapes) : raw.blendshapes[i].shape = "seq"
MappingInput == \A i \in 1..Len(raw.blendshapes) : raw.blendshapes[i].shape = "map"

KeyTable == <<"blendshape_0", "blendshape_1", "blendshape_2", "blendshape_3">>

\* frame i (from 0) carries the timestamp i / output_fps
TimestampIs(frame, i) ==
    /\ frame.timestamp.den # 0
    /\ frame.timestamp.num * A2F_OUTPUT_FPS = i * frame.timestamp.den

C10_MappingFrames ==
    (parsed.called /\ MappingInput /\ A2F_OUTPUT_FPS # 0) =>
        LET N == Len(raw.blendshapes)
        IN  /\ ~Raised(parsed.exc)
            /\ Len(parsed.frames) = N
            /\ \A i \in 1..N :
                   LET items == raw.blendshapes[i].items
                       frame == parsed.frames[i]
                   IN  /\ TimestampIs(frame, i - 1)
                       /\ frame.blendshapes =
                              [n \in DOMAIN items |-> [t |-> "float", v |-> items[n].v]]

====
